---- MODULE Spec2Model ----
(***************************************************************************)
(* Farm-survey store (form_responses, field_boundaries) and the            *)
(* production/boundary linking pass of ProductionBoundaryLinker.           *)
(*                                                                         *)
(* Numbers: quantities, prices and areas are floats in the program; the    *)
(* model draws them from small sets of integers.  A quotient is kept as    *)
(* the exact fraction [num, den].  An optional value (Python None, SQL     *)
(* NULL) is the empty sequence, a present value v is <<v>>.  A dict is a   *)
(* record; a key the dict lacks is a field the record lacks.  A list whose  *)
(* order is the iteration order of a Python set is a bag.                  *)
(***************************************************************************)
EXTENDS Integers, Sequences, FiniteSets, Bags, TLC

VARIABLES
    form_responses,     \* table form_responses, in rowid order
    field_boundaries,   \* table field_boundaries, in rowid order
    next_form_id,       \* AUTOINCREMENT counter of form_responses
    next_boundary_id,   \* AUTOINCREMENT counter of field_boundaries
    form_submitted,     \* st.session_state["register:form_submitted"]
    pc,                 \* "idle", or "reported" while a pass's result is shown
    all_links,          \* value returned by get_all_farmer_crop_links (a bag)
    dashboard,          \* outcome of generate_dashboard_data
    shown,              \* what the submit handler's run of the page displays
    call,               \* a direct call of a validator or of the area function
    ret,                \* what that call returned or raised
    pending,            \* the boundary inserts a running submit handler has left
    pass                \* the locals of a running get_all_farmer_crop_links

vars == <<form_responses, field_boundaries, next_form_id, next_boundary_id,
          form_submitted, pc, all_links, dashboard, shown, call, ret,
          pending, pass>>

\* the variables an action of the store or of the page leaves alone
page_vars == <<shown, call, ret, pending, pass>>

(***************************************************************************)
(* Bounds of the model                                                     *)
(***************************************************************************)
\* rows ever inserted, both tables together
MaxRecords == 3
\* polygons drawn in one submission
MaxPolygons == 2

Farmers == {"EA1-HH1", "EA1-HH2"}
CROP_OPTIONS == <<"Coconut", "Cocoa", "Breadfruit", "Banana", "Kava", "Other">>
\* the crops the modelled submissions select, in CROP_OPTIONS order
Crops == <<"Cocoa", "Kava">>
CropSet == {Crops[i] : i \in 1..Len(Crops)}
Districts == {"Select...", "Vaimauga 1"}

None == <<>>
Some(v) == <<v>>

Abs(x) == IF x < 0 THEN -x ELSE x
\* a / b for b > 0, cut toward zero
Quot(a, b) == IF a >= 0 THEN a \div b ELSE -((-a) \div b)

(***************************************************************************)
(* Geometry.  A coordinate is an integer number of hundredths of a degree; *)
(* a ring is a sequence of points <<lng, lat>>, the order of the GeoJSON   *)
(* the map returns.  An area in hectares is cut to whole hectares.         *)
(***************************************************************************)
\* the shoelace sum over i = k..n, j = (i + 1) % n
RECURSIVE Shoelace(_, _)
Shoelace(coords, k) ==
    IF k > Len(coords) THEN 0
    ELSE LET j == (k % Len(coords)) + 1
         IN coords[k][1] * coords[j][2] - coords[j][1] * coords[k][2]
            + Shoelace(coords, k + 1)

\* sum(coord[1] for coord in coords)
RECURSIVE SumSecond(_, _)
SumSecond(coords, k) ==
    IF k > Len(coords) THEN 0
    ELSE coords[k][2] + SumSecond(coords, k + 1)

\* 1000 * cos of 0, 15, 30, ... 180 degrees
CosTable == <<1000, 966, 866, 707, 500, 259, 0, -259, -500, -707, -866, -966, -1000>>

\* 1000 * math.cos(math.radians(lat)), taken at the multiple of 15 degrees
\* nearest to lat, for lat up to 180 degrees either side
cos_radians(lat) == CosTable[((Abs(lat) + 750) \div 1500) + 1]

\* the shoelace sum taken without abs()
twice_area_sq_degrees_signed(coords) == Shoelace(coords, 1)

\* abs(area_sq_degrees) before it is halved, in square hundredths of a degree
twice_area_sq_degrees(coords) == Abs(Shoelace(coords, 1))

\* 111000 m per degree of latitude, 111000 * cos(lat_avg) per degree of
\* longitude, 10000 square metres per hectare
calculate_polygon_area_hectares(coords) ==
    LET n == Len(coords) IN
    IF n < 3 THEN 0
    ELSE LET lat_avg == Quot(SumSecond(coords, 1), n)
         IN Quot(twice_area_sq_degrees(coords) * 111 * 111 * cos_radians(lat_avg),
                 2 * 100000)

\* the polygons the modelled submissions draw, near Apia (the map's centre,
\* [-13.9167, -171.7500]): a triangle and a rectangle, each ring closed
Triangle ==
    <<<<-17175, -1392>>, <<-17174, -1392>>, <<-17174, -1391>>, <<-17175, -1392>>>>

Rectangle ==
    <<<<-17175, -1392>>, <<-17174, -1392>>, <<-17174, -1391>>,
      <<-17175, -1391>>, <<-17175, -1392>>>>

Polygons == {Triangle, Rectangle}

AreaValues == {calculate_polygon_area_hectares(p) : p \in Polygons}

\* crop_data[crop] as submitted: quantity, unit and price; quantity zero
\* with no price; a price with no quantity
Slices ==
    {[qty_harvested |-> 30, unit |-> "Kg", price_per_unit |-> 2],
     [qty_harvested |-> 0],
     [price_per_unit |-> 2]}

(***************************************************************************)
(* Serialisation of form_data                                              *)
(***************************************************************************)
json_dumps(data) == [kind |-> "json", value |-> data]

\* json.loads: the value, or JSONDecodeError on text that is not JSON
json_loads(text) ==
    IF text.kind = "json" THEN [ok |-> TRUE, value |-> text.value]
    ELSE [ok |-> FALSE]

Garbage == [kind |-> "garbage"]

(***************************************************************************)
(* Validators.  A validator returns [raised |-> FALSE, ok, message] or     *)
(* raises, [raised |-> TRUE, exception].  "; ".join(errors) is kept as the *)
(* sequence of the joined messages.  selected_crops, a list in the         *)
(* program, is a set walked in CROP_OPTIONS order.                         *)
(***************************************************************************)
\* isinstance(v, str)
isinstance_str(v) == SubSeq(ToString(v), 1, 1) = "\""

\* isinstance(v, list)
isinstance_list(v) == SubSeq(ToString(v), 1, 1) = "<"

\* the truth value of d.get(key): a missing key, "", 0 and [] are false
Truthy(d, key) ==
    /\ key \in DOMAIN d
    /\ IF isinstance_str(d[key]) THEN d[key] # ""
       ELSE IF isinstance_list(d[key]) THEN d[key] # <<>>
       ELSE d[key] # 0

\* d.get(key) == text
GetEquals(d, key, text) ==
    /\ key \in DOMAIN d
    /\ isinstance_str(d[key])
    /\ d[key] = text

\* str.strip() over the strings of the model
strip(s) == IF s = "a  " THEN "a" ELSE IF s = "  " THEN "" ELSE s

\* the strings of the model that match ^[a-zA-Z0-9\-_]+$
FarmerIdPattern == {"a", "ab", "EA1-HH1", "EA1-HH2"}
\* ... that match ^[0-9]+$
EaCodePattern == {"10208"}
\* ... that match ^\d{4}/\d{2,4}$
SeasonYearPattern == {"2024/25", "2024/2025"}
\* ... that match ^[a-zA-Z0-9\s\-_\.]+$
FieldNamePattern == {"Cocoa Field 1", "Kava Field 1", "Plot A", "  "}

RECURSIVE Flatten(_)
Flatten(seqs) == IF seqs = <<>> THEN <<>> ELSE Head(seqs) \o Flatten(Tail(seqs))

\* errors.append(message) under a condition
ErrorIf(condition, message) == IF condition THEN <<message>> ELSE <<>>

required_fields ==
    <<[field |-> "farmer_id", label |-> "Farmer ID"],
      [field |-> "district", label |-> "District"],
      [field |-> "village", label |-> "Village"],
      [field |-> "season_year", label |-> "Season/Year"]>>

\* the selected crops in the order the validator walks them
CropList(selected_crops) == SelectSeq(CROP_OPTIONS, LAMBDA c : c \in selected_crops)

\* crop_data.get(crop_type, {})
CropInfo(data, crop_type) ==
    IF "crop_data" \in DOMAIN data /\ crop_type \in DOMAIN data.crop_data
    THEN data.crop_data[crop_type]
    ELSE [x \in {} |-> 0]

SelectedCrops(data) ==
    IF "selected_crops" \in DOMAIN data THEN data.selected_crops ELSE {}

\* the comparisons of lines 67-83 applied to a str: TypeError
CropExceptions(crop_info) ==
    ErrorIf(\E key \in {"qty_harvested", "price_per_unit", "area_acres"} :
               key \in DOMAIN crop_info /\ isinstance_str(crop_info[key]),
            "TypeError")

\* what the validator raises, in the order of its statements
form_data_exceptions(data) ==
    ErrorIf(Truthy(data, "farmer_id") /\ ~isinstance_str(data.farmer_id),
            "AttributeError")
    \o ErrorIf(Truthy(data, "ea_code") /\ ~isinstance_str(data.ea_code), "TypeError")
    \o ErrorIf(Truthy(data, "season_year") /\ ~isinstance_str(data.season_year),
               "TypeError")
    \o Flatten([i \in 1..Len(CropList(SelectedCrops(data))) |->
                  CropExceptions(CropInfo(data, CropList(SelectedCrops(data))[i]))])

\* the crop-specific required fields, lines 47-63
CropSpecificErrors(crop_type, crop_info) ==
    IF crop_type \in {"Coconut", "Cocoa", "Breadfruit"}
    THEN ErrorIf(GetEquals(crop_info, "growth_mode", "Select..."),
                 "Growth mode is required for " \o crop_type)
    ELSE IF crop_type = "Banana"
    THEN ErrorIf(GetEquals(crop_info, "banana_type", "Select..."),
                 "Banana type is required for " \o crop_type)
         \o ErrorIf(GetEquals(crop_info, "growth_mode", "Select..."),
                    "Growth mode is required for " \o crop_type)
    ELSE IF crop_type = "Other"
    THEN ErrorIf(~Truthy(crop_info, "other_crop_name"),
                 "Crop name is required for " \o crop_type)
    ELSE <<>>

\* the production fields of one crop, lines 66-85
CropProductionErrors(crop_type, crop_info) ==
    (IF "qty_harvested" \in DOMAIN crop_info
     THEN ErrorIf(crop_info.qty_harvested < 0,
                  "Quantity harvested cannot be negative for " \o crop_type)
          \o ErrorIf(crop_info.qty_harvested > 1000000,
                     "Quantity harvested seems unrealistic for " \o crop_type
                        \o " (max 1,000,000)")
     ELSE <<>>)
    \o (IF "price_per_unit" \in DOMAIN crop_info
        THEN ErrorIf(crop_info.price_per_unit < 0,
                     "Price per unit cannot be negative for " \o crop_type)
             \o ErrorIf(crop_info.price_per_unit > 10000,
                        "Price per unit seems unrealistic for " \o crop_type
                           \o " (max $10,000)")
        ELSE <<>>)
    \o (IF "area_acres" \in DOMAIN crop_info /\ crop_info.area_acres > 0
        THEN ErrorIf(crop_info.area_acres > 10000,
                     "Area in acres seems unrealistic for " \o crop_type
                        \o " (max 10,000 acres)")
        ELSE <<>>)
    \o (IF Truthy(crop_info, "qty_harvested") /\ crop_info.qty_harvested > 0
        THEN ErrorIf(GetEquals(crop_info, "unit", "Select...")
                        \/ ~Truthy(crop_info, "unit"),
                     "Unit is required when quantity harvested is provided for "
                        \o crop_type)
        ELSE <<>>)

\* errors, in the order the rules append them
form_data_errors(data) ==
    LET crops == CropList(SelectedCrops(data)) IN
    Flatten([i \in 1..Len(required_fields) |->
               ErrorIf(~Truthy(data, required_fields[i].field)
                          \/ GetEquals(data, required_fields[i].field, "Select..."),
                       required_fields[i].label \o " is required")])
    \o ErrorIf(crops = <<>>, "At least one crop must be selected")
    \o (IF Truthy(data, "farmer_id")
        THEN ErrorIf(Len(strip(data.farmer_id)) < 3,
                     "Farmer ID must be at least 3 characters long")
             \o ErrorIf(data.farmer_id \notin FarmerIdPattern,
                        "Farmer ID can only contain letters, numbers, hyphens, and underscores")
        ELSE <<>>)
    \o ErrorIf(Truthy(data, "ea_code") /\ data.ea_code \notin EaCodePattern,
               "EA Code must contain only numbers")
    \o ErrorIf(Truthy(data, "season_year") /\ data.season_year \notin SeasonYearPattern,
               "Season/Year must be in format YYYY/YY or YYYY/YYYY (e.g., 2024/25)")
    \o Flatten([i \in 1..Len(crops) |->
                  CropSpecificErrors(crops[i], CropInfo(data, crops[i]))
                  \o CropProductionErrors(crops[i], CropInfo(data, crops[i]))])

\* return False, "; ".join(errors) / return True, "Validation successful"
ValidationResult(errors) ==
    [raised |-> FALSE,
     ok |-> errors = <<>>,
     message |-> IF errors = <<>> THEN <<"Validation successful">> ELSE errors]

Raised(exception) == [raised |-> TRUE, exception |-> exception]

\* a validator that returns at its first failed rule
validate_form_data_fail_fast(data) ==
    IF form_data_exceptions(data) # <<>> THEN Raised(form_data_exceptions(data)[1])
    ELSE ValidationResult(IF form_data_errors(data) = <<>> THEN <<>>
                          ELSE <<form_data_errors(data)[1]>>)

validate_form_data(data) ==
    IF form_data_exceptions(data) # <<>> THEN Raised(form_data_exceptions(data)[1])
    ELSE ValidationResult(form_data_errors(data))

\* len(s) > limit for the strings of the model
LongerThan(s, limit) == Len(s) > limit

\* what validate_field_boundary raises
field_boundary_exceptions(data) ==
    ErrorIf(Truthy(data, "field_name") /\ ~isinstance_str(data.field_name),
            "AttributeError")
    \o ErrorIf(Truthy(data, "area_estimate") /\ isinstance_str(data.area_estimate),
               "TypeError")

\* lines 114-119: if data.get('area_estimate'):
area_estimate_errors(data) ==
    IF Truthy(data, "area_estimate")
    THEN ErrorIf(data.area_estimate <= 0, "Area estimate must be greater than 0")
         \o ErrorIf(data.area_estimate > 10000,
                    "Area estimate seems unrealistic (max 10,000 acres)")
    ELSE <<>>

field_boundary_errors(data) ==
    ErrorIf(~Truthy(data, "field_name") \/ Len(strip(data.field_name)) < 1,
            "Field name is required")
    \o ErrorIf(~Truthy(data, "field_type")
                  \/ GetEquals(data, "field_type", "Select..."),
               "Field type is required")
    \o ErrorIf(~Truthy(data, "coordinates") \/ Len(data.coordinates) < 3,
               "Field boundary must have at least 3 points")
    \o (IF Truthy(data, "field_name")
        THEN ErrorIf(LongerThan(data.field_name, 100),
                     "Field name must be less than 100 characters")
             \o ErrorIf(data.field_name \notin FieldNamePattern,
                        "Field name contains invalid characters")
        ELSE <<>>)
    \o area_estimate_errors(data)
    \o ErrorIf(Truthy(data, "notes") /\ LongerThan(data.notes, 500),
               "Notes must be less than 500 characters")

validate_field_boundary(data) ==
    IF field_boundary_exceptions(data) # <<>>
    THEN Raised(field_boundary_exceptions(data)[1])
    ELSE ValidationResult(field_boundary_errors(data))

\* the texts of the model that float() converts, with their values
NumericTexts == ("-13.92" :> -1392) @@ ("-171.75" :> -17175)

\* float(v): the number, or None where float raises ValueError or TypeError
float(v) ==
    IF isinstance_str(v)
    THEN (IF v \in DOMAIN NumericTexts THEN Some(NumericTexts[v]) ELSE None)
    ELSE IF isinstance_list(v) THEN None
    ELSE Some(v)

\* the outcome of the loop body for coordinates[k..], lines 166-175
RECURSIVE CheckPoints(_, _)
CheckPoints(coordinates, k) ==
    IF k > Len(coordinates) THEN <<>>
    ELSE LET coord == coordinates[k] IN
         IF ~isinstance_list(coord) \/ Len(coord) # 2
         THEN <<"Each coordinate must have latitude and longitude">>
         ELSE IF float(coord[1]) = None \/ float(coord[2]) = None
         THEN <<"Coordinates must be valid numbers">>
         ELSE LET lat == float(coord[1])[1]
                  lng == float(coord[2])[1]
              IN IF ~(-9000 <= lat /\ lat <= 9000) \/ ~(-18000 <= lng /\ lng <= 18000)
                 THEN <<"Coordinates out of valid range">>
                 ELSE CheckPoints(coordinates, k + 1)

\* returns at the first failed check
validate_coordinates(coordinates) ==
    IF ~isinstance_list(coordinates) \/ coordinates = <<>>
    THEN [raised |-> FALSE, ok |-> FALSE, message |-> <<"Invalid coordinates format">>]
    ELSE IF Len(coordinates) < 3
    THEN [raised |-> FALSE, ok |-> FALSE,
          message |-> <<"Minimum 3 coordinate points required">>]
    ELSE IF Len(coordinates) > 1000
    THEN [raised |-> FALSE, ok |-> FALSE,
          message |-> <<"Too many coordinate points (max 1000)">>]
    ELSE IF CheckPoints(coordinates, 1) # <<>>
    THEN [raised |-> FALSE, ok |-> FALSE, message |-> CheckPoints(coordinates, 1)]
    ELSE [raised |-> FALSE, ok |-> TRUE, message |-> <<"Coordinates are valid">>]

(***************************************************************************)
(* ProductionBoundaryLinker                                                *)
(***************************************************************************)
RowsOfFarmer(fr, farmer_id) ==
    SelectSeq(fr, LAMBDA r : r.farmer_id = farmer_id)

\* SELECT ... WHERE farmer_id = ? ; fetchone(): the farmer's first row only
get_crop_production_data(fr, farmer_id, crop_type) ==
    LET rows == RowsOfFarmer(fr, farmer_id) IN
    IF rows = <<>> THEN None
    ELSE LET parsed == json_loads(rows[1].form_data) IN
         IF ~parsed.ok THEN None
         ELSE LET crop_data == parsed.value.crop_data IN
              IF crop_type \notin DOMAIN crop_data THEN None
              ELSE Some(crop_data[crop_type]
                        @@ [farmer_id |-> farmer_id, crop_type |-> crop_type])

\* the WHERE clause without its crop_type condition
get_field_boundaries_of_farmer(fb, farmer_id, crop_type) ==
    SelectSeq(fb, LAMBDA b : b.farmer_id = farmer_id)

\* the WHERE clause without its farmer_id condition
get_field_boundaries_of_crop(fb, farmer_id, crop_type) ==
    SelectSeq(fb, LAMBDA b : b.crop_type = crop_type)

\* SELECT ... WHERE farmer_id = ? AND crop_type = ? ORDER BY creation_date
get_field_boundaries_for_crop(fb, farmer_id, crop_type) ==
    SelectSeq(fb, LAMBDA b : b.farmer_id = farmer_id /\ b.crop_type = crop_type)

\* sum([b['area_estimate'] for b in boundaries if b['area_estimate']])
RECURSIVE SumAreas(_)
SumAreas(bs) ==
    IF bs = <<>> THEN 0
    ELSE (IF Head(bs).area_estimate # None /\ Head(bs).area_estimate[1] # 0
          THEN Head(bs).area_estimate[1] ELSE 0) + SumAreas(Tail(bs))

\* the areas computed again from the stored coordinates
total_area_recomputed(boundaries) ==
    SumAreas([i \in 1..Len(boundaries) |->
                [boundaries[i] EXCEPT !.area_estimate =
                    Some(calculate_polygon_area_hectares(
                             json_loads(boundaries[i].coordinates).value))]])

\* line 105: the stored area_estimate of each boundary, summed
total_area_of(boundaries) == SumAreas(boundaries)

\* production_data.get(key, 0)
DictGet(d, key, default) == IF key \in DOMAIN d THEN d[key] ELSE default

yield_per_acre(production_data, total_area) ==
    IF total_area > 0 /\ DictGet(production_data, "qty_harvested", 0) # 0
    THEN Some([num |-> production_data.qty_harvested, den |-> total_area])
    ELSE None

\* .get(key, 1) in place of .get(key, 0)
total_value_default_one(production_data) ==
    DictGet(production_data, "qty_harvested", 1)
        * DictGet(production_data, "price_per_unit", 1)

total_value(production_data) ==
    DictGet(production_data, "qty_harvested", 0)
        * DictGet(production_data, "price_per_unit", 0)

link_production_to_boundaries(fr, fb, farmer_id, crop_type) ==
    LET production_data == get_crop_production_data(fr, farmer_id, crop_type)
        boundaries == get_field_boundaries_for_crop(fb, farmer_id, crop_type)
    IN
    IF production_data = None
    THEN [status |-> "no_production_data",
          farmer_id |-> farmer_id,
          crop_type |-> crop_type,
          boundaries |-> boundaries]
    ELSE LET total_area == total_area_of(boundaries) IN
         [status |-> "linked",
          farmer_id |-> farmer_id,
          crop_type |-> crop_type,
          production_data |-> production_data,
          field_boundaries |-> boundaries,
          summary_metrics |->
              [total_fields |-> Len(boundaries),
               total_area_acres |-> total_area,
               quantity_harvested |-> DictGet(production_data[1], "qty_harvested", 0),
               yield_per_acre |-> yield_per_acre(production_data[1], total_area),
               price_per_unit |-> DictGet(production_data[1], "price_per_unit", 0),
               total_value |-> total_value(production_data[1])]]

\* one (farmer_id, crop) per row and crop of its selected_crops; a row whose
\* form_data does not parse is passed over
production_combinations(fr) ==
    UNION { LET parsed == json_loads(fr[i].form_data) IN
            IF parsed.ok
            THEN {<<fr[i].farmer_id, c>> : c \in parsed.value.selected_crops}
            ELSE {}
          : i \in 1..Len(fr) }

\* SELECT DISTINCT farmer_id, crop_type FROM field_boundaries
boundary_combinations(fb) ==
    {<<fb[i].farmer_id, fb[i].crop_type>> : i \in 1..Len(fb)}

\* the two key collections concatenated instead of united
all_combinations_concat(fr, fb) ==
    SetToBag(production_combinations(fr)) (+) SetToBag(boundary_combinations(fb))

\* production_combinations.union(boundary_combinations): what the loop walks,
\* each key once
all_combinations(fr, fb) ==
    SetToBag(production_combinations(fr) \cup boundary_combinations(fb))

\* the loop body with no `elif has_production` branch of its own: every
\* production key goes through link_production_to_boundaries
LoopBodyLinksProductionKeys(has_production, has_boundaries, fr, fb, farmer_id, crop_type) ==
    IF has_production
    THEN link_production_to_boundaries(fr, fb, farmer_id, crop_type)
    ELSE [status |-> "boundaries_only",
          farmer_id |-> farmer_id,
          crop_type |-> crop_type,
          production_data |-> None,
          field_boundaries |-> get_field_boundaries_for_crop(fb, farmer_id, crop_type)]

\* the body of the loop over all_combinations, for one key: has_production
\* and has_boundaries come from the key sets read before the loop, the
\* per-key reads from the tables as they are when the body runs
LoopBody(has_production, has_boundaries, fr, fb, farmer_id, crop_type) ==
    IF has_production /\ has_boundaries
    THEN link_production_to_boundaries(fr, fb, farmer_id, crop_type)
    ELSE IF has_production
    THEN [status |-> "production_only",
          farmer_id |-> farmer_id,
          crop_type |-> crop_type,
          production_data |-> get_crop_production_data(fr, farmer_id, crop_type),
          field_boundaries |-> <<>>]
    ELSE [status |-> "boundaries_only",
          farmer_id |-> farmer_id,
          crop_type |-> crop_type,
          production_data |-> None,
          field_boundaries |-> get_field_boundaries_for_crop(fb, farmer_id, crop_type)]

\* the loop body on key sets and tables read at one instant
LinkEntry(fr, fb, farmer_id, crop_type) ==
    LoopBody(<<farmer_id, crop_type>> \in production_combinations(fr),
             <<farmer_id, crop_type>> \in boundary_combinations(fb),
             fr, fb, farmer_id, crop_type)

\* the loop over production_combinations alone
get_all_farmer_crop_links_production_keys(fr, fb) ==
    LET keys == SetToBag(production_combinations(fr))
        entry(k) == LinkEntry(fr, fb, k[1], k[2])
    IN BagOfAll(entry, keys)

\* results: one append per key the loop walks
get_all_farmer_crop_links(fr, fb) ==
    LET keys == all_combinations(fr, fb)
        entry(k) == LinkEntry(fr, fb, k[1], k[2])
    IN BagOfAll(entry, keys)

(***************************************************************************)
(* generate_dashboard_data                                                 *)
(***************************************************************************)
\* [r for r in all_links if r['status'] == status]
WithStatus(links, status) ==
    [r \in {x \in BagToSet(links) : x.status = status} |-> links[r]]

\* sum of metrics.get(key, 0) over the results of a bag
RECURSIVE SumMetric(_, _)
SumMetric(results, key) ==
    IF results = EmptyBag THEN 0
    ELSE LET r == CHOOSE x \in BagToSet(results) : TRUE
             others == [x \in BagToSet(results) \ {r} |-> results[x]]
         IN results[r] * r.summary_metrics[key] + SumMetric(others, key)

\* sum([len(r['field_boundaries']) for r in all_links])
RECURSIVE SumFieldBoundaries(_)
SumFieldBoundaries(results) ==
    IF results = EmptyBag THEN 0
    ELSE LET r == CHOOSE x \in BagToSet(results) : TRUE
             others == [x \in BagToSet(results) \ {r} |-> results[x]]
         IN results[r] * Len(r.field_boundaries) + SumFieldBoundaries(others)

\* the division without its guard
linking_success_rate_unguarded(n_linked, n_all) ==
    [num |-> n_linked, den |-> n_all]

\* len(fully_linked) / len(all_links) if all_links else 0
linking_success_rate(n_linked, n_all) ==
    IF n_all # 0 THEN [num |-> n_linked, den |-> n_all]
    ELSE [num |-> 0, den |-> 1]

\* every linked result added to every crop's entry
CropEntryOfAllCrops(fully_linked, crop) ==
    [farmers |-> Cardinality({r.farmer_id : r \in BagToSet(fully_linked)}),
     total_area |-> SumMetric(fully_linked, "total_area_acres"),
     total_production |-> SumMetric(fully_linked, "quantity_harvested"),
     total_value |-> SumMetric(fully_linked, "total_value"),
     fields |-> SumMetric(fully_linked, "total_fields")]

\* the entry of crop_analysis for one crop, after the sets became counts
CropEntry(fully_linked, crop) ==
    LET of_crop == [r \in {x \in BagToSet(fully_linked) : x.crop_type = crop}
                       |-> fully_linked[r]]
    IN
    [farmers |-> Cardinality({r.farmer_id : r \in BagToSet(of_crop)}),
     total_area |-> SumMetric(of_crop, "total_area_acres"),
     total_production |-> SumMetric(of_crop, "quantity_harvested"),
     total_value |-> SumMetric(of_crop, "total_value"),
     fields |-> SumMetric(of_crop, "total_fields")]

crop_analysis(fully_linked) ==
    [crop \in {r.crop_type : r \in BagToSet(fully_linked)}
        |-> CropEntry(fully_linked, crop)]

\* r['field_boundaries'] of a result that has no such key raises KeyError,
\* which no caller catches
generate_dashboard_data(links) ==
    IF \E r \in BagToSet(links) : "field_boundaries" \notin DOMAIN r
    THEN [status |-> "KeyError"]
    ELSE
    LET fully_linked == WithStatus(links, "linked")
        production_only == WithStatus(links, "production_only")
        boundaries_only == WithStatus(links, "boundaries_only")
    IN
    [status |-> "returned",
     summary |->
        [total_combinations |-> BagCardinality(links),
         fully_linked |-> BagCardinality(fully_linked),
         production_only |-> BagCardinality(production_only),
         boundaries_only |-> BagCardinality(boundaries_only),
         total_production_records |->
             BagCardinality([r \in {x \in BagToSet(links) : x.production_data # None}
                                |-> links[r]]),
         total_boundary_records |-> SumFieldBoundaries(links),
         linking_success_rate |->
             linking_success_rate(BagCardinality(fully_linked), BagCardinality(links))],
     fully_linked_data |-> fully_linked,
     production_only_data |-> production_only,
     boundaries_only_data |-> boundaries_only,
     crop_analysis |-> crop_analysis(fully_linked)]

(***************************************************************************)
(* The store                                                               *)
(***************************************************************************)
RowsIssued == (next_form_id - 1) + (next_boundary_id - 1)

\* INSERT OR REPLACE keyed by farmer_id: the farmer's earlier rows go
save_form_data_replace(fr, id, data) ==
    Append(SelectSeq(fr, LAMBDA r : r.farmer_id # data.farmer_id),
           [id |-> id,
            farmer_id |-> data.farmer_id,
            district |-> data.district,
            form_data |-> json_dumps(data)])

\* INSERT INTO form_responses; the table after the insert
save_form_data(fr, id, data) ==
    Append(fr, [id |-> id,
                farmer_id |-> data.farmer_id,
                district |-> data.district,
                form_data |-> json_dumps(data)])

\* INSERT INTO field_boundaries; the table after the insert
save_field_boundary(fb, id, field_data) ==
    Append(fb, [id |-> id,
                farmer_id |-> field_data.farmer_id,
                crop_type |-> field_data.crop_type,
                coordinates |-> json_dumps(field_data.coordinates),
                area_estimate |-> field_data.area_estimate])

\* DELETE FROM table WHERE id = ?
delete_record(rows, record_id) ==
    SelectSeq(rows, LAMBDA r : r.id # record_id)

\* all_boundary_data flattened in the order the handler walks it
RECURSIVE BoundaryList(_, _, _)
BoundaryList(farmer_id, drawn, i) ==
    IF i > Len(Crops) THEN <<>>
    ELSE (IF Crops[i] \in DOMAIN drawn
          THEN [k \in 1..Len(drawn[Crops[i]]) |->
                   [farmer_id |-> farmer_id,
                    crop_type |-> Crops[i],
                    coordinates |-> drawn[Crops[i]][k],
                    area_estimate |->
                        Some(calculate_polygon_area_hectares(drawn[Crops[i]][k]))]]
          ELSE <<>>)
         \o BoundaryList(farmer_id, drawn, i + 1)

\* the boundary inserts of one submission; `fails` are the positions whose
\* insert raises
RECURSIVE SaveBoundaries(_, _, _, _, _)
SaveBoundaries(fb, id, list, k, fails) ==
    IF k > Len(list) THEN [rows |-> fb, next_id |-> id]
    ELSE IF k \in fails THEN SaveBoundaries(fb, id, list, k + 1, fails)
    ELSE SaveBoundaries(save_field_boundary(fb, id, list[k]), id + 1,
                        list, k + 1, fails)

RECURSIVE TotalDrawn(_, _)
TotalDrawn(drawn, S) ==
    IF S = {} THEN 0
    ELSE LET c == CHOOSE c \in S : TRUE
         IN Len(drawn[c]) + TotalDrawn(drawn, S \ {c})

\* the polygons a user may have drawn, per selected crop, `room` at most
Drawings(selected_crops, room) ==
    LET PolygonLists == UNION {[1..n -> Polygons] : n \in 0..room}
    IN {d \in [selected_crops -> PolygonLists] : TotalDrawn(d, selected_crops) <= room}

Min(a, b) == IF a <= b THEN a ELSE b

Init ==
    /\ form_responses = <<>>
    /\ field_boundaries = <<>>
    /\ next_form_id = 1
    /\ next_boundary_id = 1
    /\ form_submitted = FALSE
    /\ pc = "idle"
    /\ all_links = EmptyBag
    /\ dashboard = None
    /\ shown = <<>>
    /\ call = None
    /\ ret = None
    /\ pending = None
    /\ pass = None

(***************************************************************************)
(* Actions                                                                 *)
(***************************************************************************)
\* st.success / st.error
Success(text) == [level |-> "success", text |-> text]
Error(text) == [level |-> "error", text |-> text]

\* form_data as the handler collects it
FormData(farmer_id, district, selected_crops, slice) ==
    [farmer_id |-> farmer_id,
     district |-> district,
     village |-> "Moataa",
     season_year |-> "2024/25",
     selected_crops |-> selected_crops,
     crop_data |-> [c \in selected_crops |-> slice]]

\* the writes of the handler with the boundary loop outside `if is_valid`
SubmitWritesUnchecked(farmer_id, district, selected_crops, slice, drawn, production_saved, fails) ==
    LET data == FormData(farmer_id, district, selected_crops, slice)
        list == BoundaryList(farmer_id, drawn, 1)
        saved == SaveBoundaries(field_boundaries, next_boundary_id, list, 1, fails)
    IN
    /\ pc = "idle"
    /\ selected_crops # {}
    /\ RowsIssued + 1 + Len(list) <= MaxRecords
    /\ fails \subseteq 1..Len(list)
    /\ IF validate_form_data(data).ok /\ production_saved
       THEN /\ form_responses' = save_form_data(form_responses, next_form_id, data)
            /\ next_form_id' = next_form_id + 1
            /\ form_submitted' = TRUE
       ELSE UNCHANGED <<form_responses, next_form_id, form_submitted>>
    /\ field_boundaries' = saved.rows
    /\ next_boundary_id' = saved.next_id

\* "Submit Production Data & Field Boundaries": what the handler writes
SubmitWrites(farmer_id, district, selected_crops, slice, drawn, production_saved, fails) ==
    LET data == FormData(farmer_id, district, selected_crops, slice)
        list == BoundaryList(farmer_id, drawn, 1)
        saved == SaveBoundaries(field_boundaries, next_boundary_id, list, 1, fails)
    IN
    /\ pc = "idle"
    /\ selected_crops # {}
    /\ RowsIssued + 1 + Len(list) <= MaxRecords
    /\ fails \subseteq 1..Len(list)
    /\ IF validate_form_data(data).ok
       THEN /\ IF production_saved
               THEN /\ form_responses' = save_form_data(form_responses, next_form_id, data)
                    /\ next_form_id' = next_form_id + 1
                    /\ form_submitted' = TRUE
               ELSE UNCHANGED <<form_responses, next_form_id, form_submitted>>
            /\ field_boundaries' = saved.rows
            /\ next_boundary_id' = saved.next_id
       ELSE UNCHANGED <<form_responses, next_form_id, form_submitted,
                        field_boundaries, next_boundary_id>>

\* what the handler's run displays, in the order of the calls
SubmitShows(farmer_id, district, selected_crops, slice, drawn, production_saved, fails) ==
    LET data == FormData(farmer_id, district, selected_crops, slice) IN
    IF validate_form_data(data).ok
    THEN (IF production_saved THEN <<>>
          ELSE <<Error(<<"Error saving production data">>)>>)
         \o [k \in 1..Cardinality(fails) |-> Error(<<"Error saving field boundary">>)]
         \o (IF production_saved
             THEN <<Success(<<"Data submitted successfully!">>)>>
             ELSE <<Error(<<"Failed to submit production data. Please try again.">>)>>)
    ELSE <<Error(validate_form_data(data).message)>>

\* the handler, its messages not kept
Submit(farmer_id, district, selected_crops, slice, drawn, production_saved, fails) ==
    /\ SubmitWrites(farmer_id, district, selected_crops, slice, drawn,
                    production_saved, fails)
    /\ UNCHANGED <<pc, all_links, dashboard, page_vars>>

\* the handler, its messages on the page until the next run of the script
SubmitShown(farmer_id, district, selected_crops, slice, drawn, production_saved, fails) ==
    /\ SubmitWrites(farmer_id, district, selected_crops, slice, drawn,
                    production_saved, fails)
    /\ shown' = SubmitShows(farmer_id, district, selected_crops, slice, drawn,
                            production_saved, fails)
    /\ pc' = "submitted"
    /\ UNCHANGED <<all_links, dashboard, call, ret, pending, pass>>

\* the next run of the script: the messages of the last run are gone
Rerun ==
    /\ pc = "submitted"
    /\ shown' = <<>>
    /\ pc' = "idle"
    /\ UNCHANGED <<form_responses, field_boundaries, next_form_id,
                   next_boundary_id, form_submitted, all_links, dashboard,
                   call, ret, pending, pass>>

\* db_setup.clear_all_data: DELETE FROM both tables
ClearAllData ==
    /\ pc = "idle"
    /\ form_responses' = <<>>
    /\ field_boundaries' = <<>>
    /\ UNCHANGED <<next_form_id, next_boundary_id, form_submitted,
                   pc, all_links, dashboard, page_vars>>

\* a retract that takes the last production record back out of the table
RetractEditDeletes ==
    /\ pc = "idle"
    /\ form_submitted
    /\ form_submitted' = FALSE
    /\ form_responses' = SubSeq(form_responses, 1, Len(form_responses) - 1)
    /\ UNCHANGED <<field_boundaries, next_form_id,
                   next_boundary_id, pc, all_links, dashboard, page_vars>>

\* "Retract & Edit"
RetractEdit ==
    /\ pc = "idle"
    /\ form_submitted
    /\ form_submitted' = FALSE
    /\ UNCHANGED <<form_responses, field_boundaries, next_form_id,
                   next_boundary_id, pc, all_links, dashboard, page_vars>>

\* "Submit Another Entry"
SubmitAnother ==
    /\ pc = "idle"
    /\ form_submitted
    /\ form_submitted' = FALSE
    /\ UNCHANGED <<form_responses, field_boundaries, next_form_id,
                   next_boundary_id, pc, all_links, dashboard, page_vars>>

\* database_viewer option 6
DeleteRecord(table, record_id) ==
    /\ pc = "idle"
    /\ IF table = "form_responses"
       THEN /\ form_responses' = delete_record(form_responses, record_id)
            /\ UNCHANGED field_boundaries
       ELSE /\ field_boundaries' = delete_record(field_boundaries, record_id)
            /\ UNCHANGED form_responses
    /\ UNCHANGED <<next_form_id, next_boundary_id, form_submitted,
                   pc, all_links, dashboard, page_vars>>

\* database_viewer option 5, an INSERT typed by hand: a form_responses row
\* whose form_data is not JSON
InsertMalformedForm(farmer_id) ==
    /\ pc = "idle"
    /\ RowsIssued + 1 <= MaxRecords
    /\ form_responses' = Append(form_responses,
                                [id |-> next_form_id,
                                 farmer_id |-> farmer_id,
                                 district |-> "Vaimauga 1",
                                 form_data |-> Garbage])
    /\ next_form_id' = next_form_id + 1
    /\ UNCHANGED <<field_boundaries, next_boundary_id, form_submitted,
                   pc, all_links, dashboard, page_vars>>

\* database_viewer option 5: a field_boundaries row with area_estimate NULL
InsertNullAreaBoundary(farmer_id, crop_type) ==
    /\ pc = "idle"
    /\ RowsIssued + 1 <= MaxRecords
    /\ field_boundaries' = save_field_boundary(field_boundaries, next_boundary_id,
                                [farmer_id |-> farmer_id,
                                 crop_type |-> crop_type,
                                 coordinates |-> Triangle,
                                 area_estimate |-> None])
    /\ next_boundary_id' = next_boundary_id + 1
    /\ UNCHANGED <<form_responses, next_form_id, form_submitted,
                   pc, all_links, dashboard, page_vars>>

\* demonstrate_linking: one reconciliation pass over the store
GenerateDashboard ==
    /\ pc = "idle"
    /\ all_links' = get_all_farmer_crop_links(form_responses, field_boundaries)
    /\ dashboard' = Some(generate_dashboard_data(all_links'))
    /\ pc' = "reported"
    /\ UNCHANGED <<form_responses, field_boundaries, next_form_id,
                   next_boundary_id, form_submitted, page_vars>>

\* the pass's result has been printed; the process ends
FinishReport ==
    /\ pc = "reported"
    /\ all_links' = EmptyBag
    /\ dashboard' = None
    /\ pc' = "idle"
    /\ UNCHANGED <<form_responses, field_boundaries, next_form_id,
                   next_boundary_id, form_submitted, page_vars>>

Next ==
    \/ \E selected_crops \in (SUBSET CropSet) \ {{}} :
         \E drawn \in Drawings(selected_crops,
                               Min(MaxPolygons, MaxRecords - RowsIssued - 1)) :
           \E fails \in SUBSET (1..TotalDrawn(drawn, selected_crops)),
              farmer_id \in Farmers, slice \in Slices,
              district \in Districts, production_saved \in BOOLEAN :
              Submit(farmer_id, district, selected_crops, slice, drawn,
                     production_saved, fails)
    \/ RetractEdit
    \/ SubmitAnother
    \/ \E table \in {"form_responses", "field_boundaries"},
          record_id \in 1..MaxRecords : DeleteRecord(table, record_id)
    \/ \E farmer_id \in Farmers : InsertMalformedForm(farmer_id)
    \/ \E farmer_id \in Farmers, crop_type \in CropSet :
          InsertNullAreaBoundary(farmer_id, crop_type)
    \/ ClearAllData
    \/ GenerateDashboard
    \/ FinishReport

Spec == Init /\ [][Next]_vars

(***************************************************************************)
(* The register page alone, its messages kept on the page                  *)
(***************************************************************************)
NextSubmit ==
    \/ \E selected_crops \in (SUBSET CropSet) \ {{}} :
         \E drawn \in Drawings(selected_crops,
                               Min(MaxPolygons, MaxRecords - RowsIssued - 1)) :
           \E fails \in SUBSET (1..TotalDrawn(drawn, selected_crops)),
              farmer_id \in Farmers, slice \in Slices,
              district \in Districts, production_saved \in BOOLEAN :
              SubmitShown(farmer_id, district, selected_crops, slice, drawn,
                          production_saved, fails)
    \/ Rerun
    \/ \E table \in {"form_responses", "field_boundaries"},
          record_id \in 1..MaxRecords : DeleteRecord(table, record_id)
    \/ ClearAllData

SpecSubmit == Init /\ [][NextSubmit]_vars

(***************************************************************************)
(* Direct calls of the validators and of the area function                 *)
(***************************************************************************)
\* points of a ring, at most
MaxRingLen == 4

store_vars == <<form_responses, field_boundaries, next_form_id,
                next_boundary_id, form_submitted, pc, all_links, dashboard,
                shown, pending, pass>>

\* the record without one of its keys
Without(d, key) == [k \in DOMAIN d \ {key} |-> d[k]]

\* crop_data[crop] as a caller may pass it
CropInfos ==
    {[x \in {} |-> 0],
     [growth_mode |-> "Select..."],
     [growth_mode |-> "Intercropped", qty_harvested |-> 30, unit |-> "Kg",
      price_per_unit |-> 2],
     [banana_type |-> "Select...", growth_mode |-> "Select...",
      qty_harvested |-> -1, price_per_unit |-> 20000, area_acres |-> 20000],
     [banana_type |-> "Cooking", growth_mode |-> "Single crop",
      qty_harvested |-> 30, unit |-> "Select..."],
     [other_crop_name |-> "Taro", qty_harvested |-> 2000000, unit |-> "Kg",
      price_per_unit |-> -1],
     [other_crop_name |-> "", qty_harvested |-> 0, area_acres |-> 5]}

FormFields ==
    [farmer_id : {"", "ab", "a  ", "EA 1", "EA1-HH1"},
     district : Districts,
     village : {"", "Moataa"},
     season_year : {"2024", "2024/25"},
     ea_code : {"", "EA10", "10208"}]

SelectedSets == {{}, {"Cocoa"}, {"Banana"}, {"Other"}, {"Cocoa", "Kava"}}

\* the records of the right types: every field a string or a number as the
\* page's widgets yield them; with_entries is whether crop_data has the
\* selected crops' entries
FormInputs ==
    {f @@ [selected_crops |-> S,
           crop_data |-> [c \in (IF with_entries THEN S ELSE {}) |-> info]] :
        f \in FormFields, S \in SelectedSets, info \in CropInfos,
        with_entries \in BOOLEAN}

\* records that lack keys
SparseFormInputs ==
    {[selected_crops |-> {"Kava"}],
     [farmer_id |-> "EA1-HH1", district |-> "Vaimauga 1", village |-> "Moataa",
      season_year |-> "2024/25"],
     [farmer_id |-> "EA1-HH1", district |-> "Vaimauga 1", village |-> "Moataa",
      season_year |-> "2024/25", selected_crops |-> {"Cocoa"}]}

ValidForm ==
    [farmer_id |-> "EA1-HH1", district |-> "Vaimauga 1", village |-> "Moataa",
     season_year |-> "2024/25", selected_crops |-> {"Kava"},
     crop_data |-> [c \in {"Kava"} |-> [qty_harvested |-> 30, unit |-> "Kg",
                                        price_per_unit |-> 2]]]

\* a quantity or a price that is text
TextNumberForms ==
    {[ValidForm EXCEPT !.crop_data = [c \in {"Kava"} |-> info]] :
        info \in {[qty_harvested |-> "abc"],
                  [price_per_unit |-> "abc"]}}

\* a farmer_id that is a number
NumberFarmerForms == {[ValidForm EXCEPT !.farmer_id = 12345]}

CallValidateFormData(data) ==
    /\ pc = "idle"
    /\ call = None
    /\ call' = Some([fn |-> "validate_form_data", arg |-> data])
    /\ ret' = Some(validate_form_data(data))
    /\ UNCHANGED store_vars

\* a ring with a vertex at latitude 95, in the map's order and in the other
LatitudeOutOfRange ==
    {<<<<-17175, 9500>>, <<-17174, 9500>>, <<-17174, 9499>>, <<-17175, 9500>>>>,
     <<<<9500, -17175>>, <<9500, -17174>>, <<9499, -17174>>, <<9500, -17175>>>>}

\* the ring with every point's two numbers exchanged
Swapped(ring) == [i \in 1..Len(ring) |-> <<ring[i][2], ring[i][1]>>]

\* the triangle at longitude +171.75
EastTriangle == [i \in 1..Len(Triangle) |-> <<-Triangle[i][1], Triangle[i][2]>>]

\* 1001 points
LongRing == [i \in 1..1001 |-> <<0, 0>>]

CoordinateInputs ==
    {<<>>, <<<<0, 0>>, <<1, 0>>>>, Triangle, Rectangle, Swapped(Triangle),
     Swapped(Rectangle), EastTriangle, Swapped(EastTriangle),
     <<<<0, 0>>, <<1, 0>>, <<1, 1>>>>, <<<<9000, 18000>>, <<0, 0>>, <<-9000, -18000>>>>,
     <<<<19000, 0>>, <<0, 0>>, <<0, 19000>>>>,
     LongRing}
    \cup LatitudeOutOfRange

\* a point of three numbers, alone and before a point out of range
ThreeNumberRings ==
    {<<<<0, 0>>, <<1, 0, 5>>, <<1, 1>>>>,
     <<<<0, 0>>, <<1, 0, 5>>, <<19000, 0>>>>}

\* a coordinate that is text
TextCoordinateRings ==
    {<<<<0, 0>>, <<1, "abc">>, <<1, 1>>>>,
     <<<<0, 0>>, <<1, "-13.92">>, <<1, 1>>>>}

BoundaryFields ==
    [field_name : {"", "Plot A", "Plot#1", "  "},
     field_type : {"Select...", "Cropland"},
     coordinates : {<<>>, <<<<0, 0>>, <<1, 0>>>>, Triangle},
     area_estimate : {-5, 0, 59, 10000, 10001},
     notes : {""}]

\* with an area_estimate, and without the key
BoundaryInputs ==
    BoundaryFields \cup {Without(b, "area_estimate") : b \in BoundaryFields}

\* an area_estimate that is text
TextAreaBoundaries ==
    {[field_name |-> "Plot A", field_type |-> "Cropland", coordinates |-> Triangle,
      area_estimate |-> "abc", notes |-> ""]}

CallValidateFieldBoundary(data) ==
    /\ pc = "idle"
    /\ call = None
    /\ call' = Some([fn |-> "validate_field_boundary", arg |-> data])
    /\ ret' = Some(validate_field_boundary(data))
    /\ UNCHANGED store_vars

CallValidateCoordinates(coordinates) ==
    /\ pc = "idle"
    /\ call = None
    /\ call' = Some([fn |-> "validate_coordinates", arg |-> coordinates])
    /\ ret' = Some(validate_coordinates(coordinates))
    /\ UNCHANGED store_vars

\* the corners of a cell of the grid of hundredths of a degree
Corners(lng, lat) == {<<lng, lat>>, <<lng + 1, lat>>, <<lng + 1, lat + 1>>, <<lng, lat + 1>>}

\* rings of up to MaxRingLen corners of one cell: at Apia, at the origin, by
\* the pole and the antimeridian
AreaRings ==
    UNION {UNION {[1..n -> Corners(cell[1], cell[2])] : n \in 0..MaxRingLen} :
             cell \in {<<-17175, -1392>>, <<0, 0>>, <<-1, -1>>, <<17999, 8999>>}}

CallCalculatePolygonArea(coords) ==
    /\ pc = "idle"
    /\ call = None
    /\ call' = Some([fn |-> "calculate_polygon_area_hectares", arg |-> coords])
    /\ ret' = Some(calculate_polygon_area_hectares(coords))
    /\ UNCHANGED store_vars

NextCalls ==
    \/ \E data \in FormInputs : CallValidateFormData(data)
    \/ \E data \in SparseFormInputs : CallValidateFormData(data)
    \/ \E data \in TextNumberForms : CallValidateFormData(data)
    \/ \E data \in NumberFarmerForms : CallValidateFormData(data)
    \/ \E data \in BoundaryInputs : CallValidateFieldBoundary(data)
    \/ \E data \in TextAreaBoundaries : CallValidateFieldBoundary(data)
    \/ \E coordinates \in CoordinateInputs : CallValidateCoordinates(coordinates)
    \/ \E coordinates \in ThreeNumberRings : CallValidateCoordinates(coordinates)
    \/ \E coordinates \in TextCoordinateRings : CallValidateCoordinates(coordinates)
    \/ CallValidateCoordinates("-13.92,-171.75")
    \/ \E coords \in AreaRings : CallCalculatePolygonArea(coords)

SpecCalls == Init /\ [][NextCalls]_vars

(***************************************************************************)
(* The pass and a submission, statement by statement.  The register page   *)
(* and the linker are separate processes on one database file; every       *)
(* INSERT, DELETE and SELECT is one statement on a connection of its own   *)
(* (or, for the two key queries of the pass, two SELECTs on one connection *)
(* in autocommit), so the statements of the two interleave.  The two reads *)
(* of link_production_to_boundaries for one key are taken as one step, and *)
(* the printing of a finished pass ("reported") as one instant in which    *)
(* nothing else happens.                                                   *)
(***************************************************************************)
\* a write of another process is committed while the pass runs
Interleave(p) == IF p = None THEN None ELSE Some([p[1] EXCEPT !.interleaved = TRUE])

\* the handler up to save_form_data, lines 504-529
SubmitProduction(farmer_id, district, selected_crops, slice, drawn, production_saved) ==
    LET data == FormData(farmer_id, district, selected_crops, slice)
        list == BoundaryList(farmer_id, drawn, 1)
    IN
    /\ pc # "reported"
    /\ pending = None
    /\ selected_crops # {}
    /\ RowsIssued + 1 + Len(list) <= MaxRecords
    /\ validate_form_data(data).ok
    /\ IF production_saved
       THEN /\ form_responses' = save_form_data(form_responses, next_form_id, data)
            /\ next_form_id' = next_form_id + 1
            /\ pass' = Interleave(pass)
       ELSE UNCHANGED <<form_responses, next_form_id, pass>>
    /\ pending' = Some([list |-> list, k |-> 1, production_saved |-> production_saved])
    /\ UNCHANGED <<field_boundaries, next_boundary_id, form_submitted, pc,
                   all_links, dashboard, shown, call, ret>>

\* one turn of the boundary loop, lines 537-549
SubmitBoundary(raises) ==
    /\ pc # "reported"
    /\ pending # None
    /\ pending[1].k <= Len(pending[1].list)
    /\ IF raises
       THEN UNCHANGED <<field_boundaries, next_boundary_id, pass>>
       ELSE /\ field_boundaries' = save_field_boundary(field_boundaries, next_boundary_id,
                                                      pending[1].list[pending[1].k])
            /\ next_boundary_id' = next_boundary_id + 1
            /\ pass' = Interleave(pass)
    /\ pending' = Some([pending[1] EXCEPT !.k = @ + 1])
    /\ UNCHANGED <<form_responses, next_form_id, form_submitted, pc,
                   all_links, dashboard, shown, call, ret>>

\* after the loop, lines 553-560
SubmitDone ==
    /\ pc # "reported"
    /\ pending # None
    /\ pending[1].k > Len(pending[1].list)
    /\ form_submitted' = (form_submitted \/ pending[1].production_saved)
    /\ pending' = None
    /\ UNCHANGED <<form_responses, field_boundaries, next_form_id,
                   next_boundary_id, pc, all_links, dashboard, shown, call, ret,
                   pass>>

\* database_viewer option 6, from another terminal, whatever the pass does
ViewerDelete(table, record_id) ==
    /\ pc # "reported"
    /\ IF table = "form_responses"
       THEN /\ form_responses' = delete_record(form_responses, record_id)
            /\ UNCHANGED field_boundaries
       ELSE /\ field_boundaries' = delete_record(field_boundaries, record_id)
            /\ UNCHANGED form_responses
    /\ pass' = IF <<form_responses', field_boundaries'>>
                      = <<form_responses, field_boundaries>>
               THEN pass ELSE Interleave(pass)
    /\ UNCHANGED <<next_form_id, next_boundary_id, form_submitted, pc,
                   all_links, dashboard, shown, call, ret, pending>>

\* get_all_farmer_crop_links, lines 133-148: the production keys are read
PassReadProduction ==
    /\ pc = "idle"
    /\ pass' = Some([production_combinations |-> production_combinations(form_responses),
                     boundary_combinations |-> {},
                     todo |-> {},
                     results |-> EmptyBag,
                     interleaved |-> FALSE])
    /\ pc' = "read_production"
    /\ UNCHANGED <<form_responses, field_boundaries, next_form_id,
                   next_boundary_id, form_submitted, all_links, dashboard,
                   shown, call, ret, pending>>

\* lines 151-158: the boundary keys are read, and the keys united
PassReadBoundaries ==
    /\ pc = "read_production"
    /\ pass' = Some([pass[1] EXCEPT
                       !.boundary_combinations = boundary_combinations(field_boundaries),
                       !.todo = pass[1].production_combinations
                                  \cup boundary_combinations(field_boundaries)])
    /\ pc' = "linking"
    /\ UNCHANGED <<form_responses, field_boundaries, next_form_id,
                   next_boundary_id, form_submitted, all_links, dashboard,
                   shown, call, ret, pending>>

\* lines 160-187: one turn of the loop, the keys in the order of the set
PassLink(key) ==
    /\ pc = "linking"
    /\ key \in pass[1].todo
    /\ pass' = Some([pass[1] EXCEPT
                       !.todo = @ \ {key},
                       !.results = @ (+) SetToBag({
                           LoopBody(key \in pass[1].production_combinations,
                                    key \in pass[1].boundary_combinations,
                                    form_responses, field_boundaries,
                                    key[1], key[2])})])
    /\ UNCHANGED <<form_responses, field_boundaries, next_form_id,
                   next_boundary_id, form_submitted, pc, all_links, dashboard,
                   shown, call, ret, pending>>

\* line 189 and generate_dashboard_data, lines 193-242
PassReturn ==
    /\ pc = "linking"
    /\ pass[1].todo = {}
    /\ all_links' = pass[1].results
    /\ dashboard' = Some(generate_dashboard_data(all_links'))
    /\ pass' = None
    /\ pc' = "reported"
    /\ UNCHANGED <<form_responses, field_boundaries, next_form_id,
                   next_boundary_id, form_submitted, shown, call, ret, pending>>

\* the submissions that interleave with the pass: quantity, unit and price
\* entered, every polygon the triangle
FullSlices == {s \in Slices : DOMAIN s = {"qty_harvested", "unit", "price_per_unit"}}

TriangleDrawings(selected_crops, room) ==
    {d \in Drawings(selected_crops, room) :
        \A c \in selected_crops : \A k \in 1..Len(d[c]) : d[c][k] = Triangle}

NextPass ==
    \/ \E selected_crops \in (SUBSET CropSet) \ {{}} :
         \E drawn \in TriangleDrawings(selected_crops,
                                       Min(MaxPolygons, MaxRecords - RowsIssued - 1)) :
           \E farmer_id \in Farmers, slice \in FullSlices,
              district \in Districts, production_saved \in BOOLEAN :
              SubmitProduction(farmer_id, district, selected_crops, slice, drawn,
                               production_saved)
    \/ \E raises \in BOOLEAN : SubmitBoundary(raises)
    \/ SubmitDone
    \/ \E table \in {"form_responses", "field_boundaries"},
          record_id \in 1..MaxRecords : ViewerDelete(table, record_id)
    \/ \E farmer_id \in Farmers, crop_type \in CropSet :
          pending = None /\ InsertNullAreaBoundary(farmer_id, crop_type)
    \/ PassReadProduction
    \/ PassReadBoundaries
    \/ \E key \in Farmers \X CropSet : PassLink(key)
    \/ PassReturn
    \/ FinishReport

SpecPass == Init /\ [][NextPass]_vars

(***************************************************************************)
(* Application start and clear_all_data, called on a store in use          *)
(***************************************************************************)
\* DROP TABLE followed by CREATE TABLE
create_table_afresh(table) == Some(<<>>)

\* CREATE TABLE IF NOT EXISTS: an absent table (None) is created empty, a
\* table that exists is left as it is
create_table_if_not_exists(table) == IF table = None THEN Some(<<>>) ELSE table

\* db_setup.init_database over the two tables of the file
init_database(db) ==
    [form_responses |-> create_table_if_not_exists(db.form_responses),
     field_boundaries |-> create_table_if_not_exists(db.field_boundaries)]

\* db_setup.clear_all_data: both DELETEs and one commit, or an exception
\* before the commit
clear_all_data(db, raises) ==
    IF raises THEN [db |-> db, returns |-> FALSE]
    ELSE [db |-> [form_responses |-> Some(<<>>), field_boundaries |-> Some(<<>>)],
          returns |-> TRUE]

\* the database file as the two functions see it
Database == [form_responses |-> Some(form_responses),
             field_boundaries |-> Some(field_boundaries)]

\* app.py / Instructions.py: every run of the script calls init_database
CallInitDatabase ==
    /\ pc = "idle"
    /\ call = None
    /\ form_responses' = init_database(Database).form_responses[1]
    /\ field_boundaries' = init_database(Database).field_boundaries[1]
    /\ call' = Some([fn |-> "init_database", arg |-> <<>>])
    /\ ret' = Some([raised |-> FALSE, returns |-> None])
    /\ UNCHANGED <<next_form_id, next_boundary_id, form_submitted, pc,
                   all_links, dashboard, shown, pending, pass>>

CallClearAllData(raises) ==
    /\ pc = "idle"
    /\ call = None
    /\ form_responses' = clear_all_data(Database, raises).db.form_responses[1]
    /\ field_boundaries' = clear_all_data(Database, raises).db.field_boundaries[1]
    /\ call' = Some([fn |-> "clear_all_data", arg |-> <<>>])
    /\ ret' = Some([raised |-> FALSE,
                    returns |-> Some(clear_all_data(Database, raises).returns)])
    /\ UNCHANGED <<next_form_id, next_boundary_id, form_submitted, pc,
                   all_links, dashboard, shown, pending, pass>>

NextAdmin ==
    \/ \E selected_crops \in (SUBSET CropSet) \ {{}} :
         \E drawn \in Drawings(selected_crops,
                               Min(MaxPolygons, MaxRecords - RowsIssued - 1)) :
           \E fails \in SUBSET (1..TotalDrawn(drawn, selected_crops)),
              farmer_id \in Farmers, slice \in Slices,
              district \in Districts, production_saved \in BOOLEAN :
              Submit(farmer_id, district, selected_crops, slice, drawn,
                     production_saved, fails)
    \/ \E table \in {"form_responses", "field_boundaries"},
          record_id \in 1..MaxRecords : DeleteRecord(table, record_id)
    \/ CallInitDatabase
    \/ \E raises \in BOOLEAN : CallClearAllData(raises)

SpecAdmin == Init /\ [][NextAdmin]_vars

(***************************************************************************)
(* The key sets of the store, stated over the rows                         *)
(***************************************************************************)
Parses(row) == row.form_data.kind = "json"

ProductionKeys ==
    {k \in Farmers \X CropSet :
        \E i \in 1..Len(form_responses) :
            /\ Parses(form_responses[i])
            /\ form_responses[i].farmer_id = k[1]
            /\ k[2] \in form_responses[i].form_data.value.selected_crops}

BoundaryKeys ==
    {k \in Farmers \X CropSet :
        \E i \in 1..Len(field_boundaries) :
            /\ field_boundaries[i].farmer_id = k[1]
            /\ field_boundaries[i].crop_type = k[2]}

AllKeys == ProductionKeys \cup BoundaryKeys

Results == BagToSet(all_links)
KeyOf(r) == <<r.farmer_id, r.crop_type>>
Reported == pc = "reported"
Returned == Reported /\ dashboard[1].status = "returned"

\* the store holds only what validated submissions wrote (deletes allowed)
OnlySubmittedRows ==
    /\ \A i \in 1..Len(form_responses) : Parses(form_responses[i])
    /\ \A i \in 1..Len(field_boundaries) : field_boundaries[i].area_estimate # None

(***************************************************************************)
(* C1: after a pass, a result whose key is in both key sets has status     *)
(* linked, one whose key is only a production key has production_only,     *)
(* one whose key is only a boundary key has boundaries_only, and no        *)
(* result has any other status.                                            *)
(***************************************************************************)
C1_StatusFollowsMembership ==
    Reported =>
        \A r \in Results :
            /\ r.status \in {"linked", "production_only", "boundaries_only"}
            /\ r.status = "linked" <=>
                  (KeyOf(r) \in ProductionKeys /\ KeyOf(r) \in BoundaryKeys)
            /\ r.status = "production_only" <=>
                  (KeyOf(r) \in ProductionKeys /\ KeyOf(r) \notin BoundaryKeys)
            /\ r.status = "boundaries_only" <=>
                  (KeyOf(r) \notin ProductionKeys /\ KeyOf(r) \in BoundaryKeys)

(***************************************************************************)
(* C2: on a store written by validated submissions and deletes by id,      *)
(* generate_dashboard_data returns a value; it does not end in an          *)
(* exception.                                                              *)
(***************************************************************************)
C2_DashboardReturns ==
    (Reported /\ OnlySubmittedRows) => dashboard[1].status = "returned"

(***************************************************************************)
(* C3: the results hold exactly one entry for each key of                  *)
(* ProductionKeys \cup BoundaryKeys and no entry for another key.          *)
(***************************************************************************)
EntriesOf(k) == {r \in Results : KeyOf(r) = k}

C3_OneEntryPerKey ==
    Reported =>
        /\ \A r \in Results : KeyOf(r) \in AllKeys
        /\ \A k \in AllKeys :
              /\ Cardinality(EntriesOf(k)) = 1
              /\ \A r \in EntriesOf(k) : CopiesIn(r, all_links) = 1
        /\ BagCardinality(all_links) = Cardinality(AllKeys)

\* a pass over a store where two production rows and a boundary row share
\* one (farmer_id, crop)
C3_Witness ==
    /\ Reported
    /\ \E i, j \in 1..Len(form_responses), b \in 1..Len(field_boundaries) :
          /\ i < j
          /\ Parses(form_responses[i]) /\ Parses(form_responses[j])
          /\ form_responses[i].farmer_id = form_responses[j].farmer_id
          /\ field_boundaries[b].farmer_id = form_responses[i].farmer_id
          /\ field_boundaries[b].crop_type
                \in form_responses[i].form_data.value.selected_crops
                    \cap form_responses[j].form_data.value.selected_crops
          /\ Cardinality(EntriesOf(<<field_boundaries[b].farmer_id,
                                     field_boundaries[b].crop_type>>)) = 1

(***************************************************************************)
(* Counts and sums of the store, stated over the rows                      *)
(***************************************************************************)
BoundaryRowsOf(k) ==
    {i \in 1..Len(field_boundaries) :
        /\ field_boundaries[i].farmer_id = k[1]
        /\ field_boundaries[i].crop_type = k[2]}

RECURSIVE AreaOfRows(_)
AreaOfRows(I) ==
    IF I = {} THEN 0
    ELSE LET i == CHOOSE x \in I : TRUE
             a == field_boundaries[i].area_estimate
         IN (IF a = None THEN 0 ELSE a[1]) + AreaOfRows(I \ {i})

Linked == {r \in Results : r.status = "linked"}

(***************************************************************************)
(* C4: for every linked result, total_fields is the number of boundary     *)
(* rows with the result's farmer_id and crop_type, and total_area is the   *)
(* sum of their area_estimate, a NULL area counting 0.                     *)
(***************************************************************************)
C4_FieldsAndArea ==
    Reported =>
        \A r \in Linked :
            /\ r.summary_metrics.total_fields = Cardinality(BoundaryRowsOf(KeyOf(r)))
            /\ r.summary_metrics.total_area_acres = AreaOfRows(BoundaryRowsOf(KeyOf(r)))

\* the triangle (59 ha) and the rectangle (119 ha) of one key give total_fields = 2 and total_area = 3, while
\* the farmer has no other boundary
C4_Witness ==
    /\ Reported
    /\ \E r \in Linked :
          /\ r.summary_metrics.total_fields = 2
          /\ r.summary_metrics.total_area_acres = 59 + 119

\* a linked key one of whose boundary rows has a NULL area
C4_WitnessNullArea ==
    /\ Reported
    /\ \E r \in Linked :
          \E i \in BoundaryRowsOf(KeyOf(r)) :
              field_boundaries[i].area_estimate = None

(***************************************************************************)
(* C5: for every linked result whose slice has qty_harvested,              *)
(* yield_per_acre is qty_harvested / total_area when total_area > 0 (so 0  *)
(* for a quantity of 0) and null exactly when total_area is not > 0.       *)
(***************************************************************************)
C5_YieldPerAcre ==
    Reported =>
        \A r \in Linked :
            "qty_harvested" \in DOMAIN r.production_data[1] =>
                LET m == r.summary_metrics IN
                IF m.total_area_acres > 0
                THEN m.yield_per_acre =
                        Some([num |-> r.production_data[1].qty_harvested,
                              den |-> m.total_area_acres])
                ELSE m.yield_per_acre = None

(***************************************************************************)
(* C6: for every linked result, total_value is qty_harvested times         *)
(* price_per_unit of the slice used, and 0 when the slice lacks either.    *)
(***************************************************************************)
C6_TotalValue ==
    Reported =>
        \A r \in Linked :
            LET slice == r.production_data[1] IN
            IF "qty_harvested" \in DOMAIN slice /\ "price_per_unit" \in DOMAIN slice
            THEN r.summary_metrics.total_value
                    = slice.qty_harvested * slice.price_per_unit
            ELSE r.summary_metrics.total_value = 0

\* a linked result whose slice has a price and no quantity
C6_Witness ==
    /\ Reported
    /\ \E r \in Linked :
          /\ "qty_harvested" \notin DOMAIN r.production_data[1]
          /\ "price_per_unit" \in DOMAIN r.production_data[1]
          /\ r.summary_metrics.total_value = 0

\* a linked result whose slice has both
C6_WitnessBoth ==
    /\ Reported
    /\ \E r \in Linked : r.summary_metrics.total_value = 60

(***************************************************************************)
(* C7 as stated: every boundaries_only result carries total_fields, the    *)
(* count of the key's boundary rows, and total_area, the sum of their      *)
(* area_estimate.                                                          *)
(***************************************************************************)
BoundariesOnly == {r \in Results : r.status = "boundaries_only"}

C7_CarriesMetrics ==
    Reported =>
        \A r \in BoundariesOnly :
            /\ "summary_metrics" \in DOMAIN r
            /\ r.summary_metrics.total_fields = Cardinality(BoundaryRowsOf(KeyOf(r)))
            /\ r.summary_metrics.total_area_acres = AreaOfRows(BoundaryRowsOf(KeyOf(r)))

(***************************************************************************)
(* C7 amended: a boundaries_only result has no summary_metrics; it carries *)
(* field_boundaries, exactly the boundary rows of its key in rowid order,  *)
(* from which the count and the area sum are taken when the result is      *)
(* printed.                                                                *)
(***************************************************************************)
C7_CarriesBoundaryRows ==
    Reported =>
        \A r \in BoundariesOnly :
            /\ "summary_metrics" \notin DOMAIN r
            /\ {r.field_boundaries[i].id : i \in 1..Len(r.field_boundaries)}
                  = {field_boundaries[i].id : i \in BoundaryRowsOf(KeyOf(r))}
            /\ Len(r.field_boundaries) = Cardinality(BoundaryRowsOf(KeyOf(r)))
            /\ SumAreas(r.field_boundaries) = AreaOfRows(BoundaryRowsOf(KeyOf(r)))
            /\ \A i, j \in 1..Len(r.field_boundaries) :
                  i < j => r.field_boundaries[i].id < r.field_boundaries[j].id

\* a boundaries_only result of two fields, while the store also holds a
\* boundary of another key
C7_Witness ==
    /\ Reported
    /\ \E r \in BoundariesOnly : Len(r.field_boundaries) = 2
    /\ Cardinality(BoundaryKeys) = 2

(***************************************************************************)
(* C8: when the pass returns, linking_success_rate is the number of linked *)
(* results over the number of keys of the store and lies in [0, 1]; with   *)
(* no key it is 0 and nothing is divided by zero.                          *)
(***************************************************************************)
C8_LinkingSuccessRate ==
    Returned =>
        LET rate == dashboard[1].summary.linking_success_rate IN
        /\ rate.den > 0
        /\ 0 <= rate.num /\ rate.num <= rate.den
        /\ rate.num * Cardinality(AllKeys) = Cardinality(Linked) * rate.den
        /\ AllKeys = {} => rate.num = 0

\* one key linked out of two
C8_Witness ==
    /\ Returned
    /\ Cardinality(AllKeys) = 2
    /\ Cardinality(Linked) = 1
    /\ dashboard[1].summary.linking_success_rate = [num |-> 1, den |-> 2]

\* the pass over the empty store
C8_WitnessEmpty ==
    /\ Returned
    /\ AllKeys = {}
    /\ dashboard[1].summary.linking_success_rate.num = 0

(***************************************************************************)
(* C9: when the pass returns, crop_analysis has an entry for a crop        *)
(* exactly when a linked result has that crop, and the entry's farmers,    *)
(* total_area, total_production, total_value and fields are the sums over  *)
(* the linked results of that crop only.                                   *)
(***************************************************************************)
LinkedOfCrop(crop) == {r \in Linked : r.crop_type = crop}

RECURSIVE SumOverLinked(_, _)
SumOverLinked(R, key) ==
    IF R = {} THEN 0
    ELSE LET r == CHOOSE x \in R : TRUE
         IN r.summary_metrics[key] + SumOverLinked(R \ {r}, key)

WellFormedRows == SelectSeq(form_responses, Parses)

C10_MalformedRowIgnored ==
    Reported =>
        all_links = get_all_farmer_crop_links(WellFormedRows, field_boundaries)

(***************************************************************************)
(* C11: when validate_form_data rejects a submission the handler writes    *)
(* nothing: the step that shows the validation error leaves form_responses *)
(* and field_boundaries as they were.                                      *)
(***************************************************************************)
\* the page shows the validator's message and nothing else
ValidationErrorShown(messages) ==
    /\ Len(messages) = 1
    /\ messages[1].level = "error"
    /\ messages[1].text # <<"Failed to submit production data. Please try again.">>

C11_RejectedWritesNothing ==
    [][(pc' = "submitted" /\ ValidationErrorShown(shown'))
          => /\ form_responses' = form_responses
             /\ field_boundaries' = field_boundaries]_vars

\* a rejected submission, made over a store that holds rows of both tables
C11_Witness ==
    /\ pc = "submitted"
    /\ ValidationErrorShown(shown)
    /\ shown[1].text = <<"District is required">>
    /\ form_responses # <<>>
    /\ field_boundaries # <<>>

(***************************************************************************)
(* C12: every stored boundary record that came in through the submit       *)
(* handler is one the validators accept (validate_field_boundary on the    *)
(* record, validate_coordinates on its ring), has area_estimate >= 0 and   *)
(* has a ring of 3 or more vertices, each with latitude in [-90, 90] and   *)
(* longitude in [-180, 180].                                               *)
(***************************************************************************)
\* the boundary dict the handler built for the row
BoundaryRecordOf(row) ==
    [field_name |-> row.crop_type \o " Field 1",
     field_type |-> "Cropland",
     coordinates |-> row.coordinates.value,
     area_estimate |-> row.area_estimate[1],
     notes |-> ""]

C12_BoundariesValidated ==
    OnlySubmittedRows =>
        \A i \in 1..Len(field_boundaries) :
            LET row == field_boundaries[i]
                ring == row.coordinates.value
            IN /\ validate_field_boundary(BoundaryRecordOf(row)).ok
               /\ validate_coordinates(ring).ok
               /\ row.area_estimate[1] >= 0
               /\ Len(ring) >= 3
               /\ \A k \in 1..Len(ring) :
                     /\ -18000 <= ring[k][1] /\ ring[k][1] <= 18000
                     /\ -9000 <= ring[k][2] /\ ring[k][2] <= 9000

(***************************************************************************)
(* Claims on the validators are stated over a direct call and its result.  *)
(***************************************************************************)
Called(fn) == call # None /\ call[1].fn = fn

\* the call returned (ok, message)
CallReturned(fn) == Called(fn) /\ ~ret[1].raised

(***************************************************************************)
(* C13: a record validate_form_data accepts (the only records the handler  *)
(* stores) has at least one selected crop and, for every selected crop,    *)
(* its required crop-specific fields present and not a placeholder:        *)
(* growth_mode for Coconut, Cocoa and Breadfruit, banana_type and          *)
(* growth_mode for Banana, other_crop_name for Other.                      *)
(***************************************************************************)
RequiredCropFields(crop_type) ==
    IF crop_type \in {"Coconut", "Cocoa", "Breadfruit"} THEN {"growth_mode"}
    ELSE IF crop_type = "Banana" THEN {"banana_type", "growth_mode"}
    ELSE IF crop_type = "Other" THEN {"other_crop_name"}
    ELSE {}

CropFieldSet(data, crop_type, key) ==
    /\ "crop_data" \in DOMAIN data
    /\ crop_type \in DOMAIN data.crop_data
    /\ key \in DOMAIN data.crop_data[crop_type]
    /\ data.crop_data[crop_type][key] \notin {"", "Select..."}

C13_AcceptedHasRequiredCropFields ==
    (CallReturned("validate_form_data") /\ ret[1].ok) =>
        LET data == call[1].arg IN
        /\ SelectedCrops(data) # {}
        /\ \A c \in SelectedCrops(data) :
              \A key \in RequiredCropFields(c) : CropFieldSet(data, c, key)

(***************************************************************************)
(* The rules of validate_form_data as a table, in evaluation order: what   *)
(* violates the rule, its message, and whether the rule is one of the      *)
(* rules that are not crop-specific as the specification lists them        *)
(* (presence of the four required fields, a crop selected, farmer_id of 3  *)
(* characters or more, and per crop the ranges of quantity, price and      *)
(* area and the unit of a quantity).                                       *)
(***************************************************************************)
Rule(violated, message, listed) ==
    [violated |-> violated, message |-> message, listed |-> listed]

Entered(data, field) == field \in DOMAIN data /\ data[field] # ""

RequiredRule(data, field, label) ==
    Rule(~Entered(data, field) \/ data[field] = "Select...",
         label \o " is required", TRUE)

CropRules(data, c) ==
    LET info == CropInfo(data, c)
        has(key) == key \in DOMAIN info
        placeholder(key) == has(key) /\ info[key] = "Select..."
    IN
    <<Rule(c = "Banana" /\ placeholder("banana_type"),
           "Banana type is required for " \o c, FALSE),
      Rule(c \in {"Coconut", "Cocoa", "Breadfruit", "Banana"}
              /\ placeholder("growth_mode"),
           "Growth mode is required for " \o c, FALSE),
      Rule(c = "Other" /\ (~has("other_crop_name") \/ info.other_crop_name = ""),
           "Crop name is required for " \o c, FALSE),
      Rule(has("qty_harvested") /\ info.qty_harvested < 0,
           "Quantity harvested cannot be negative for " \o c, TRUE),
      Rule(has("qty_harvested") /\ info.qty_harvested > 1000000,
           "Quantity harvested seems unrealistic for " \o c \o " (max 1,000,000)",
           TRUE),
      Rule(has("price_per_unit") /\ info.price_per_unit < 0,
           "Price per unit cannot be negative for " \o c, TRUE),
      Rule(has("price_per_unit") /\ info.price_per_unit > 10000,
           "Price per unit seems unrealistic for " \o c \o " (max $10,000)", TRUE),
      Rule(has("area_acres") /\ info.area_acres > 10000,
           "Area in acres seems unrealistic for " \o c \o " (max 10,000 acres)",
           TRUE),
      Rule(has("qty_harvested") /\ info.qty_harvested > 0
              /\ (~has("unit") \/ info.unit \in {"", "Select..."}),
           "Unit is required when quantity harvested is provided for " \o c,
           TRUE)>>

\* farmer_id shorter than 3 characters, blanks at its ends not counted
FarmerIdShort(data) ==
    /\ Entered(data, "farmer_id")
    /\ Len(strip(data.farmer_id)) < 3

Rules(data) ==
    LET crops == CropList(SelectedCrops(data)) IN
    <<RequiredRule(data, "farmer_id", "Farmer ID"),
      RequiredRule(data, "district", "District"),
      RequiredRule(data, "village", "Village"),
      RequiredRule(data, "season_year", "Season/Year"),
      Rule(crops = <<>>, "At least one crop must be selected", TRUE),
      Rule(FarmerIdShort(data),
           "Farmer ID must be at least 3 characters long", TRUE),
      Rule(Entered(data, "farmer_id") /\ data.farmer_id \notin FarmerIdPattern,
           "Farmer ID can only contain letters, numbers, hyphens, and underscores",
           FALSE),
      Rule(Entered(data, "ea_code") /\ data.ea_code \notin EaCodePattern,
           "EA Code must contain only numbers", FALSE),
      Rule(Entered(data, "season_year") /\ data.season_year \notin SeasonYearPattern,
           "Season/Year must be in format YYYY/YY or YYYY/YYYY (e.g., 2024/25)",
           FALSE)>>
    \o Flatten([i \in 1..Len(crops) |-> CropRules(data, crops[i])])

MessagesOf(rules) == [i \in 1..Len(rules) |-> rules[i].message]

Violated(rules) == SelectSeq(rules, LAMBDA r : r.violated)

Listed(rules) == SelectSeq(rules, LAMBDA r : r.listed)

(***************************************************************************)
(* C14, as the specification has it: validate_form_data returns ok exactly *)
(* when none of the listed rules is violated, and the message has the      *)
(* message of every violated listed rule, in evaluation order.             *)
(***************************************************************************)
C14_OkIffListedRules ==
    CallReturned("validate_form_data") =>
        LET listed == Listed(Rules(call[1].arg))
            said == SelectSeq(ret[1].message,
                              LAMBDA m : \E i \in 1..Len(listed) : listed[i].message = m)
        IN /\ ret[1].ok = (Violated(listed) = <<>>)
           /\ said = MessagesOf(Violated(listed))

(***************************************************************************)
(* C14, amended: validate_form_data returns ok exactly when no rule of the *)
(* table is violated, the listed ones and also the farmer_id character    *)
(* set, the ea_code digits, the season_year format and the crop-specific   *)
(* placeholders; when rules are violated the message is the messages of    *)
(* all of them, in evaluation order.                                       *)
(***************************************************************************)
C14_OkIffNoRuleViolated ==
    CallReturned("validate_form_data") =>
        LET violated == Violated(Rules(call[1].arg)) IN
        /\ ret[1].ok = (violated = <<>>)
        /\ ~ret[1].ok => ret[1].message = MessagesOf(violated)
        /\ ret[1].ok => ret[1].message = <<"Validation successful">>

\* a record that violates a required field, the farmer_id character set and
\* the season_year format, and rules of its crop
C14_Witness ==
    /\ CallReturned("validate_form_data")
    /\ ~ret[1].ok
    /\ Len(ret[1].message) >= 5
    /\ ret[1].message[1] = "District is required"
    /\ ret[1].message[2]
         = "Farmer ID can only contain letters, numbers, hyphens, and underscores"
    /\ \E i \in 1..Len(ret[1].message) :
          ret[1].message[i] = "Growth mode is required for Banana"

\* a record that passes every listed rule and is rejected
C14_WitnessUnlisted ==
    /\ CallReturned("validate_form_data")
    /\ ret[1].message
         = <<"Season/Year must be in format YYYY/YY or YYYY/YYYY (e.g., 2024/25)">>

(***************************************************************************)
(* C15: validate_coordinates reads a ring as the area function does, a     *)
(* point being (longitude, latitude): a ring of 3 to 1000 points of two    *)
(* numbers each is accepted exactly when every point has its latitude in   *)
(* [-90, 90] and its longitude in [-180, 180].                             *)
(***************************************************************************)
\* a list of points, each a list of two numbers
RingOfNumbers(coordinates) ==
    /\ isinstance_list(coordinates)
    /\ \A k \in 1..Len(coordinates) :
          /\ isinstance_list(coordinates[k])
          /\ Len(coordinates[k]) = 2
          /\ ~isinstance_str(coordinates[k][1]) /\ ~isinstance_str(coordinates[k][2])

\* every point in range, a point read as <<lng, lat>>
InRangeLngLat(ring) ==
    \A k \in 1..Len(ring) :
        /\ -18000 <= ring[k][1] /\ ring[k][1] <= 18000
        /\ -9000 <= ring[k][2] /\ ring[k][2] <= 9000

C15_SameAxisOrderAsArea ==
    (/\ CallReturned("validate_coordinates")
     /\ RingOfNumbers(call[1].arg)
     /\ Len(call[1].arg) >= 3 /\ Len(call[1].arg) <= 1000)
        => (ret[1].ok = InRangeLngLat(call[1].arg))

(***************************************************************************)
(* C16: validate_field_boundary rejects every record whose area_estimate   *)
(* is present and not greater than 0 (0 and the negatives) or greater than *)
(* 10,000, and reports no area error for a record whose area_estimate is   *)
(* absent or in (0, 10,000].                                               *)
(***************************************************************************)
AreaMessages ==
    {"Area estimate must be greater than 0",
     "Area estimate seems unrealistic (max 10,000 acres)"}

C16_AreaRule ==
    CallReturned("validate_field_boundary") =>
        LET data == call[1].arg
            bad == /\ "area_estimate" \in DOMAIN data
                   /\ (data.area_estimate <= 0 \/ data.area_estimate > 10000)
        IN /\ bad => ~ret[1].ok
           /\ ~bad => \A i \in 1..Len(ret[1].message) :
                          ret[1].message[i] \notin AreaMessages

(***************************************************************************)
(* C17: validate_form_data, validate_field_boundary and                    *)
(* validate_coordinates never raise: whatever the input, fields of the     *)
(* wrong type included, the call returns (ok, message).                    *)
(***************************************************************************)
Validators == {"validate_form_data", "validate_field_boundary", "validate_coordinates"}

C17_ValidatorsNeverRaise ==
    (call # None /\ call[1].fn \in Validators) => ~ret[1].raised

(***************************************************************************)
(* C18: calculate_polygon_area_hectares returns exactly 0 for a ring of    *)
(* fewer than 3 points and a value >= 0 for every ring of 3 or more points *)
(* in range, the same value whatever the ring's orientation and starting   *)
(* vertex; the square-degree area is half the absolute value of the        *)
(* shoelace sum.                                                           *)
(***************************************************************************)
Reversed(ring) == [i \in 1..Len(ring) |-> ring[Len(ring) + 1 - i]]

\* the same ring, started at its second vertex
Rotated(ring) == IF ring = <<>> THEN <<>> ELSE Tail(ring) \o <<Head(ring)>>

RECURSIVE SumOver(_, _)
SumOver(f, S) ==
    IF S = {} THEN 0
    ELSE LET i == CHOOSE i \in S : TRUE IN f[i] + SumOver(f, S \ {i})

\* sum over the edges (p, q) of the ring of x_p * y_q - x_q * y_p
ShoelaceSum(ring) ==
    LET n == Len(ring)
        next(i) == IF i = n THEN 1 ELSE i + 1
    IN SumOver([i \in 1..n |-> ring[i][1] * ring[next(i)][2]
                                  - ring[next(i)][1] * ring[i][2]],
               1..n)

C18_AreaNonNegative ==
    Called("calculate_polygon_area_hectares") =>
        LET ring == call[1].arg
            area == ret[1]
        IN /\ Len(ring) < 3 => area = 0
           /\ (Len(ring) >= 3 /\ InRangeLngLat(ring)) =>
                 /\ area >= 0
                 /\ area = calculate_polygon_area_hectares(Reversed(ring))
                 /\ area = calculate_polygon_area_hectares(Rotated(ring))
                 /\ twice_area_sq_degrees(ring) = Abs(ShoelaceSum(ring))

\* a ring near Apia walked clockwise (its shoelace sum is negative) whose
\* area is the triangle's 59 ha
C18_Witness ==
    /\ Called("calculate_polygon_area_hectares")
    /\ Len(call[1].arg) >= 3
    /\ InRangeLngLat(call[1].arg)
    /\ ShoelaceSum(call[1].arg) < 0
    /\ ret[1] = 59

(***************************************************************************)
(* C19: writes are append-only and atomic per record.  Every step either   *)
(* appends rows, one per id the table issues, and leaves every row that    *)
(* was stored (of both tables) as it was, an insert that fails adding      *)
(* nothing; or it is a delete by id, which takes the rows of one id out of *)
(* one table, or clear_all_data, which empties both tables.                *)
(***************************************************************************)
IsPrefix(s, t) == Len(s) <= Len(t) /\ SubSeq(t, 1, Len(s)) = s

\* rows' is rows followed by one new row per id issued, ids in sequence
AppendedTo(rows, rows2, next_id, next_id2) ==
    /\ IsPrefix(rows, rows2)
    /\ Len(rows2) - Len(rows) = next_id2 - next_id
    /\ \A i \in (Len(rows) + 1)..Len(rows2) :
          rows2[i].id = next_id + (i - Len(rows) - 1)

RemovedById(rows, rows2) ==
    \E i \in 1..Len(rows) :
        rows2 = SelectSeq(rows, LAMBDA r : r.id # rows[i].id)

HasMessage(messages, message) == \E i \in 1..Len(messages) : messages[i] = message

\* the run saved the production record and failed to save a boundary
PartialFailure ==
    /\ pc = "submitted"
    /\ ~ValidationErrorShown(shown)
    /\ ~HasMessage(shown, Error(<<"Error saving production data">>))
    /\ HasMessage(shown, Error(<<"Error saving field boundary">>))

\* what a run in which every insert succeeded reports
ReportedAsFullSuccess ==
    /\ HasMessage(shown, Success(<<"Data submitted successfully!">>))
    /\ form_submitted

C20_PartialFailureReported == PartialFailure => ~ReportedAsFullSuccess

(***************************************************************************)
(* C22: for a key in both key sets, the production slice of the result is   *)
(* crop_data[crop] of the first record, in store order, among the farmer's *)
(* records whose crop_data contains the crop: records of the farmer        *)
(* without the crop are passed over, later records with it are ignored.    *)
(***************************************************************************)
\* the farmer's records whose crop_data contains the crop, in store order
RecordsWithCrop(k) ==
    SelectSeq(form_responses,
              LAMBDA row : /\ Parses(row)
                           /\ row.farmer_id = k[1]
                           /\ k[2] \in DOMAIN row.form_data.value.crop_data)

C22_FirstRecordWithCrop ==
    (Reported /\ OnlySubmittedRows) =>
        \A k \in ProductionKeys \cap BoundaryKeys :
            \A r \in EntriesOf(k) :
                RecordsWithCrop(k) # <<>> =>
                    /\ r.status = "linked"
                    /\ r.production_data =
                           Some(RecordsWithCrop(k)[1].form_data.value.crop_data[k[2]]
                                @@ [farmer_id |-> k[1], crop_type |-> k[2]])

(***************************************************************************)
(* C23: validate_field_boundary checks every rule and reports all          *)
(* violations in this order: the field_name messages (required, longer     *)
(* than 100 characters, invalid characters), then the field_type message,  *)
(* then coordinates, then area_estimate, then notes; ok is true exactly    *)
(* when no message is reported.                                            *)
(***************************************************************************)
\* the position of a message in the order of the rules
RuleRank(message) ==
    IF message \in {"Field name is required",
                    "Field name must be less than 100 characters",
                    "Field name contains invalid characters"} THEN 1
    ELSE IF message = "Field type is required" THEN 2
    ELSE IF message = "Field boundary must have at least 3 points" THEN 3
    ELSE IF message \in AreaMessages THEN 4
    ELSE 5

C23_MessagesInRuleOrder ==
    CallReturned("validate_field_boundary") =>
        /\ ret[1].ok = (ret[1].message = <<"Validation successful">>)
        /\ ~ret[1].ok =>
              \A i, j \in 1..Len(ret[1].message) :
                  i < j => RuleRank(ret[1].message[i]) <= RuleRank(ret[1].message[j])

(***************************************************************************)
(* C24: validate_coordinates is accumulate-all: for a ring of 3 to 1000    *)
(* points the returned message reports the violation of every point that   *)
(* violates a rule (not a pair; not numbers; out of range), not only the   *)
(* first one met.                                                          *)
(***************************************************************************)
\* the rule a point violates, or None
PointViolation(coord) ==
    IF ~isinstance_list(coord) \/ Len(coord) # 2
    THEN Some("Each coordinate must have latitude and longitude")
    ELSE IF float(coord[1]) = None \/ float(coord[2]) = None
    THEN Some("Coordinates must be valid numbers")
    ELSE IF \E i \in 1..2 : float(coord[i])[1] < -18000 \/ float(coord[i])[1] > 18000
    THEN Some("Coordinates out of valid range")
    ELSE None

ViolatingPoints(coordinates) ==
    {k \in 1..Len(coordinates) : PointViolation(coordinates[k]) # None}

C24_EveryViolationReported ==
    (/\ CallReturned("validate_coordinates")
     /\ isinstance_list(call[1].arg)
     /\ Len(call[1].arg) >= 3
     /\ Len(call[1].arg) <= 1000) =>
        /\ Len(ret[1].message) >= Cardinality(ViolatingPoints(call[1].arg))
        /\ \A k \in ViolatingPoints(call[1].arg) :
              \E i \in 1..Len(ret[1].message) :
                  <<ret[1].message[i]>> = PointViolation(call[1].arg[k])

(***************************************************************************)
(* C25: if the production insert of a submission fails, no boundary record *)
(* of that submission is persisted: a run of the submit handler that       *)
(* reports the production insert as failed leaves field_boundaries as it   *)
(* was.                                                                    *)
(***************************************************************************)
ProductionInsertFailed(messages) ==
    HasMessage(messages, Error(<<"Error saving production data">>))

C25_NoBoundaryWithoutProduction ==
    [][(pc' = "submitted" /\ ProductionInsertFailed(shown'))
          => /\ form_responses' = form_responses
             /\ field_boundaries' = field_boundaries]_vars

(***************************************************************************)
(* C26: the summary of a dashboard partitions the keys: fully_linked +     *)
(* production_only + boundaries_only = total_combinations, and             *)
(* total_boundary_records is the number of boundary records in the store.  *)
(***************************************************************************)
Summary == dashboard[1].summary

C26_SummaryPartitionsKeys ==
    Returned =>
        /\ Summary.fully_linked + Summary.production_only + Summary.boundaries_only
              = Summary.total_combinations
        /\ Summary.total_combinations = Cardinality(AllKeys)
        /\ Summary.total_boundary_records = Len(field_boundaries)

\* a key of each status, and two boundary records
C26_Witness ==
    /\ Returned
    /\ Summary.fully_linked = 1
    /\ Summary.production_only = 1
    /\ Summary.boundaries_only = 1
    /\ Summary.total_boundary_records = 2

(***************************************************************************)
(* C28: form_submitted is False at session start; it becomes True only in  *)
(* a step that appends a production record whose form data passes          *)
(* validation; a step that sets it back to False ('Retract & Edit')        *)
(* leaves both tables as they were; and a production insert, also one      *)
(* after a retract, appends a record and replaces none.                    *)
(***************************************************************************)
LastRow(rows) == rows[Len(rows)]

CallOf(fn) == call = None /\ call' # None /\ call'[1].fn = fn

C30_InitKeepsClearEmpties ==
    [][/\ CallOf("init_database") =>
             /\ form_responses' = form_responses
             /\ field_boundaries' = field_boundaries
             /\ init_database(init_database(Database)) = init_database(Database)
       /\ CallOf("clear_all_data") =>
             \/ /\ ret'[1].returns = Some(TRUE)
                /\ form_responses' = <<>>
                /\ field_boundaries' = <<>>
             \/ /\ ret'[1].returns = Some(FALSE)
                /\ form_responses' = form_responses
                /\ field_boundaries' = field_boundaries]_vars

\* init_database has run on a store with records in both tables
C30_Witness ==
    /\ Called("init_database")
    /\ form_responses # <<>>
    /\ field_boundaries # <<>>

(***************************************************************************)
(* C21: a pass that reads the key sets after a submission's production     *)
(* insert and before its boundary inserts completes, and reports each key  *)
(* that it read as a production key and not as a boundary key as           *)
(* production_only, once, with no boundaries, whatever is written while    *)
(* the pass runs.                                                          *)
(***************************************************************************)
PassReturns == pc = "linking" /\ pc' = "reported"

C21_ProductionOnlyNotAnError ==
    [][PassReturns =>
          \A key \in pass[1].production_combinations \ pass[1].boundary_combinations :
              \E r \in BagToSet(all_links') :
                  /\ KeyOf(r) = key
                  /\ r.status = "production_only"
                  /\ r.field_boundaries = <<>>
                  /\ all_links'[r] = 1
                  /\ \A x \in BagToSet(all_links') : KeyOf(x) = key => x = r]_vars

\* the pass has returned while the handler, its production record the only
\* one stored, has not yet tried its first boundary insert
C21_Witness ==
    /\ pc = "reported"
    /\ pending # None
    /\ pending[1].production_saved
    /\ pending[1].k = 1
    /\ Len(pending[1].list) >= 1
    /\ Len(form_responses) = 1
    /\ field_boundaries = <<>>
    /\ \E r \in Results :
          /\ r.status = "production_only"
          /\ r.farmer_id = pending[1].list[1].farmer_id
          /\ r.crop_type = pending[1].list[1].crop_type
          /\ r.production_data # None

(***************************************************************************)
(* C27: every result of status linked has production data and              *)
(* total_fields >= 1, and every boundaries_only result lists at least one  *)
(* boundary, also when inserts and deletes of other sessions are           *)
(* committed between the pass's reading of the key sets and its per-key    *)
(* reads.                                                                  *)
(***************************************************************************)
C27_LinkedHasFields ==
    Reported =>
        \A r \in Results :
            /\ r.status = "linked" =>
                  /\ r.production_data # None
                  /\ r.summary_metrics.total_fields >= 1
            /\ r.status = "boundaries_only" => Len(r.field_boundaries) >= 1

(***************************************************************************)
(* C29: the pass is read-only.  No statement of the pass changes a table   *)
(* or a counter; the total area of a linked result is the sum of the       *)
(* stored area_estimate of the boundaries it lists, a NULL counting 0; and *)
(* a pass during which no other session wrote returns the results that     *)
(* the store's contents determine, in whatever order it walked the keys,   *)
(* so two such passes over the same contents return the same results.      *)
(***************************************************************************)
PassStep ==
    \/ pc' # pc
    \/ pass # None /\ pass' # None /\ pass'[1].todo # pass[1].todo

StoredArea(boundary) ==
    IF boundary.area_estimate = None THEN 0 ELSE boundary.area_estimate[1]

C29_PassReadOnly ==
    [][/\ PassStep => UNCHANGED <<form_responses, field_boundaries,
                                  next_form_id, next_boundary_id>>
       /\ PassReturns =>
             /\ \A r \in BagToSet(all_links') :
                   r.status = "linked" =>
                       r.summary_metrics.total_area_acres =
                           SumOver([i \in 1..Len(r.field_boundaries) |->
                                      StoredArea(r.field_boundaries[i])],
                                   1..Len(r.field_boundaries))
             /\ ~pass[1].interleaved =>
                   all_links' = get_all_farmer_crop_links(form_responses,
                                                          field_boundaries)]_vars

\* a pass with no write in between has returned two results or more, one of
\* them linked with a boundary whose area_estimate is NULL
C29_Witness ==
    /\ pc = "reported"
    /\ all_links = get_all_farmer_crop_links(form_responses, field_boundaries)
    /\ Cardinality(Results) >= 2
    /\ \E r \in Results :
          /\ r.status = "linked"
          /\ \E i \in 1..Len(r.field_boundaries) :
                r.field_boundaries[i].area_estimate = None

====
